---- MODULE Spec2Model ----
(***************************************************************************)
(* The method_info record of voc/java/methods.py: the Method constructor,  *)
(* the access_flags codec, and read / resolve / write against a constant   *)
(* pool, a binary reader and a binary writer.                              *)
(*                                                                         *)
(* A stream is a sequence of u2 words.  The constant pool, the reader, the *)
(* writer and the Attribute record live outside methods.py; they are       *)
(* modelled at the interface the record uses (pool: add / index / [i];     *)
(* attribute: read / write / resolve).                                     *)
(***************************************************************************)
EXTENDS Integers, Sequences, FiniteSets, TLC

\* ------------------------------------------------------------------ bounds
MaxAttrs == 2   \* largest attributes_count word in a stream, longest attribute list
MaxIndex == 3   \* largest pool index word in a stream
MaxDump  == 1   \* largest tracing depth

\* ------------------------------------------------- Table 4.5 (lines 25-36)
ACC_PUBLIC       == 1
ACC_PRIVATE      == 2
ACC_PROTECTED    == 4
ACC_STATIC       == 8
ACC_FINAL        == 16
ACC_SYNCHRONIZED == 32
ACC_BRIDGE       == 64
ACC_VARARGS      == 128
ACC_NATIVE       == 256
ACC_ABSTRACT     == 1024
ACC_STRICT       == 2048
ACC_SYNTHETIC    == 4096

U2 == 0..65535

\* Python's None for the dump argument (methods.py line 144).
None == -1

FlagNames ==
    <<"public", "private", "protected", "static", "final", "synchronized",
      "bridge", "varargs", "native", "abstract", "strict", "synthetic">>

\* The (flag, mask) table of lines 156-169, in its order.
FlagMask(f) ==
    CASE f = "public"       -> ACC_PUBLIC
      [] f = "private"      -> ACC_PRIVATE
      [] f = "protected"    -> ACC_PROTECTED
      [] f = "static"       -> ACC_STATIC
      [] f = "final"        -> ACC_FINAL
      [] f = "synchronized" -> ACC_SYNCHRONIZED
      [] f = "bridge"       -> ACC_BRIDGE
      [] f = "varargs"      -> ACC_VARARGS
      [] f = "native"       -> ACC_NATIVE
      [] f = "abstract"     -> ACC_ABSTRACT
      [] f = "strict"       -> ACC_STRICT
      [] f = "synthetic"    -> ACC_SYNTHETIC

\* ------------------------------------------------------------ bit tests
\* bool(x & mask) for a one-bit mask: bit mask of x is set.
BitSet(x, mask) == (x \div mask) % 2 = 1

\* ------------------------------------------------------- the constant pool
\* Utf8 entries are strings; NonUtf8 stands for an entry of any other kind.
Strings == {"run", "Code"}
NonUtf8 == "#Class"
Entries == Strings \cup {NonUtf8}

\* constant_pool[i].bytes.decode('utf8') succeeds: i names a Utf8 entry.
PoolHasUtf8At(pool, i) == i \in 1..Len(pool) /\ pool[i] \in Strings

\* constant_pool.index(s) succeeds.
PoolHas(pool, s) == \E i \in 1..Len(pool) : pool[i] = s

\* constant_pool.index(s): the index of the entry.
PoolIndex(pool, s) ==
    CHOOSE i \in 1..Len(pool) : pool[i] = s /\ \A j \in 1..(i - 1) : pool[j] # s

\* constant_pool.add(s): interning, the pool afterwards.
PoolAdd(pool, s) == IF PoolHas(pool, s) THEN pool ELSE Append(pool, s)

\* ------------------------------------------------------ the Method record
\* The value a failed call leaves in place of a record.
NoMethod == [none |-> TRUE]
NoArgs   == [none |-> TRUE]

\* Mutant: the three access flags stored as given, no normalisation.
Method_AsGiven(args) ==
    [name         |-> args.name,
     descriptor   |-> args.descriptor,
     public       |-> args.public,
     private      |-> args.private,
     protected    |-> args.protected,
     static       |-> args.static,
     final        |-> args.final,
     synchronized |-> args.synchronized,
     bridge       |-> args.bridge,
     varargs      |-> args.varargs,
     native       |-> args.native,
     abstract     |-> args.abstract,
     strict       |-> args.strict,
     synthetic    |-> args.synthetic,
     attributes   |-> args.attributes]

\* Mutant: the last branch stores the public argument instead of True.
Method_PublicAsGiven(args) ==
    [Method_AsGiven(args) EXCEPT
        !.protected = ~args.private /\ args.protected,
        !.public    = ~args.private /\ ~args.protected /\ args.public]

\* Method.__init__ (lines 38-138): args holds the keyword arguments.
Method(args) ==
    LET private   == args.private
        protected == IF private THEN FALSE ELSE args.protected
        public    == IF private THEN FALSE
                     ELSE IF protected THEN FALSE ELSE TRUE
    IN  [name         |-> args.name,
         descriptor   |-> args.descriptor,
         public       |-> public,
         private      |-> private,
         protected    |-> protected,
         static       |-> args.static,
         final        |-> args.final,
         synchronized |-> args.synchronized,
         bridge       |-> args.bridge,
         varargs      |-> args.varargs,
         native       |-> args.native,
         abstract     |-> args.abstract,
         strict       |-> args.strict,
         synthetic    |-> args.synthetic,
         attributes   |-> args.attributes]

\* Method.attributes_count (lines 215-217).
attributes_count(m) == Len(m.attributes)

\* Method.access_flags (lines 219-248).  The twelve masks are distinct
\* single bits, so the bitwise or of the chosen ones is their sum.
access_flags(m) ==
      (IF m.public THEN ACC_PUBLIC ELSE 0)
    + (IF m.private THEN ACC_PRIVATE ELSE 0)
    + (IF m.protected THEN ACC_PROTECTED ELSE 0)
    + (IF m.static THEN ACC_STATIC ELSE 0)
    + (IF m.final THEN ACC_FINAL ELSE 0)
    + (IF m.synchronized THEN ACC_SYNCHRONIZED ELSE 0)
    + (IF m.bridge THEN ACC_BRIDGE ELSE 0)
    + (IF m.varargs THEN ACC_VARARGS ELSE 0)
    + (IF m.native THEN ACC_NATIVE ELSE 0)
    + (IF m.abstract THEN ACC_ABSTRACT ELSE 0)
    + (IF m.strict THEN ACC_STRICT ELSE 0)
    + (IF m.synthetic THEN ACC_SYNTHETIC ELSE 0)

\* The keyword arguments read passes to the constructor (lines 181-197).
ReadArgs(flags, name, descriptor, attributes) ==
    [name         |-> name,
     descriptor   |-> descriptor,
     public       |-> BitSet(flags, ACC_PUBLIC),
     private      |-> BitSet(flags, ACC_PRIVATE),
     protected    |-> BitSet(flags, ACC_PROTECTED),
     static       |-> BitSet(flags, ACC_STATIC),
     final        |-> BitSet(flags, ACC_FINAL),
     synchronized |-> BitSet(flags, ACC_SYNCHRONIZED),
     bridge       |-> BitSet(flags, ACC_BRIDGE),
     varargs      |-> BitSet(flags, ACC_VARARGS),
     native       |-> BitSet(flags, ACC_NATIVE),
     abstract     |-> BitSet(flags, ACC_ABSTRACT),
     strict       |-> BitSet(flags, ACC_STRICT),
     synthetic    |-> BitSet(flags, ACC_SYNTHETIC),
     attributes   |-> attributes]

\* ------------------------------------------------------------- attributes
\* An attribute record is [name |-> s]; its encoding is the u2 pool index of
\* its name (the payload is left out: the record never looks inside).

\* `if dump:` -- None and 0 are both false.
Truthy(dump) == dump # None /\ dump # 0

\* Attribute.read(reader, dump) at cursor p: one u2, looked up in the pool.
AttributeRead(b, pool, p, dump) ==
    IF p >= Len(b)
    THEN [err |-> "StreamTruncated", attr |-> NoMethod, pos |-> p, trace |-> <<>>]
    ELSE IF ~PoolHasUtf8At(pool, b[p + 1])
    THEN [err |-> "InvalidReference", attr |-> NoMethod, pos |-> p + 1, trace |-> <<>>]
    ELSE [err   |-> "none",
          attr  |-> [name |-> pool[b[p + 1]]],
          pos   |-> p + 1,
          trace |-> IF Truthy(dump)
                    THEN <<[indent |-> dump, text |-> <<"Attribute", pool[b[p + 1]]>>]>>
                    ELSE <<>>]

\* attribute.write(writer): the pool index of its name, or a lookup miss.
AttributeWrite(a, pool, out) ==
    IF PoolHas(pool, a.name)
    THEN [err |-> "none", out |-> Append(out, PoolIndex(pool, a.name))]
    ELSE [err |-> "ContractViolation", out |-> out]

\* attribute.resolve(constant_pool): interns its name.
AttributeResolve(a, pool) == PoolAdd(pool, a.name)

\* ------------------------------------------------------------------- read
\* The loop of lines 175-179: n calls of Attribute.read from cursor p, in
\* stream order; the first failing call ends the loop.
RECURSIVE ReadAttributes(_, _, _, _, _)
ReadAttributes(b, pool, p, n, dump) ==
    IF n = 0
    THEN [err |-> "none", attributes |-> <<>>, pos |-> p, calls |-> <<>>, trace |-> <<>>]
    ELSE LET a == AttributeRead(b, pool, p, dump)
         IN  IF a.err # "none"
             THEN [err |-> a.err, attributes |-> <<>>, pos |-> a.pos,
                   calls |-> <<"Attribute.read">>, trace |-> a.trace]
             ELSE LET r == ReadAttributes(b, pool, a.pos, n - 1, dump)
                  IN  [err        |-> r.err,
                       attributes |-> <<a.attr>> \o r.attributes,
                       pos        |-> r.pos,
                       calls      |-> <<"Attribute.read">> \o r.calls,
                       trace      |-> a.trace \o r.trace]

\* The three print calls of lines 151-173, at depth dump.
Dump(dump, flags, name, descriptor, count) ==
    LET access_description ==
            SelectSeq(FlagNames, LAMBDA f : BitSet(flags, FlagMask(f)))
    IN  <<[indent |-> dump, text |-> <<"Method", name, descriptor>>],
          [indent |-> dump,
           text   |-> IF access_description # <<>>
                      THEN <<"Flags", flags, access_description>>
                      ELSE <<>>],
          [indent |-> dump, text |-> <<"Attributes", count>>]>>

\* Mutant: all four words are read before either index is looked up.
ReadHeaderWordsFirst(b, pool) ==
    LET failed(e, p, c) ==
            [err |-> e, pos |-> p, calls |-> c, flags |-> 0,
             name |-> "", descriptor |-> "", count |-> 0]
        u2 == "read_u2"
    IN  IF Len(b) < 4
        THEN failed("StreamTruncated", Len(b), [i \in 1..(Len(b) + 1) |-> u2])
        ELSE IF ~PoolHasUtf8At(pool, b[2]) \/ ~PoolHasUtf8At(pool, b[3])
        THEN failed("InvalidReference", 4, <<u2, u2, u2, u2>>)
        ELSE [err |-> "none", pos |-> 4, calls |-> <<u2, u2, u2, u2>>,
              flags |-> b[1], name |-> pool[b[2]], descriptor |-> pool[b[3]],
              count |-> b[4]]

\* Lines 145-149: the flag word, the two pool indices, each looked up as soon
\* as it is read, and the attribute count.  calls lists the reader.read_u2
\* calls made, the failing one included; pos is the cursor afterwards.
ReadHeader(b, pool) ==
    LET failed(e, p, c) ==
            [err |-> e, pos |-> p, calls |-> c, flags |-> 0,
             name |-> "", descriptor |-> "", count |-> 0]
        u2 == "read_u2"
    IN  IF Len(b) < 1 THEN failed("StreamTruncated", 0, <<u2>>)
        ELSE IF Len(b) < 2 THEN failed("StreamTruncated", 1, <<u2, u2>>)
        ELSE IF ~PoolHasUtf8At(pool, b[2])
             THEN failed("InvalidReference", 2, <<u2, u2>>)
        ELSE IF Len(b) < 3 THEN failed("StreamTruncated", 2, <<u2, u2, u2>>)
        ELSE IF ~PoolHasUtf8At(pool, b[3])
             THEN failed("InvalidReference", 3, <<u2, u2, u2>>)
        ELSE IF Len(b) < 4 THEN failed("StreamTruncated", 3, <<u2, u2, u2, u2>>)
        ELSE [err |-> "none", pos |-> 4, calls |-> <<u2, u2, u2, u2>>,
              flags |-> b[1], name |-> pool[b[2]], descriptor |-> pool[b[3]],
              count |-> b[4]]

\* Mutant: the attribute loop sits inside the `if dump:` block.
ReadLoopWhenDumping(b, pool, p, count, dump) ==
    IF Truthy(dump)
    THEN ReadAttributes(b, pool, p, count, dump + 2)
    ELSE [err |-> "none", attributes |-> <<>>, pos |-> p, calls |-> <<>>,
          trace |-> <<>>]

\* Lines 175-179: the attribute loop, run whatever dump is; each
\* Attribute.read gets dump + 2, or None when dump is None.
ReadLoop(b, pool, p, count, dump) ==
    ReadAttributes(b, pool, p, count, IF dump # None THEN dump + 2 ELSE dump)

\* Method.read(reader, dump) (lines 143-197) on the stream b from cursor 0.
read(b, pool, dump) ==
    LET h == ReadHeader(b, pool)
    IN  IF h.err # "none"
        THEN [err |-> h.err, method |-> NoMethod, args |-> NoArgs,
              pos |-> h.pos, calls |-> h.calls, trace |-> <<>>]
        ELSE
        LET head == IF Truthy(dump)
                    THEN Dump(dump, h.flags, h.name, h.descriptor, h.count)
                    ELSE <<>>
            r    == ReadLoop(b, pool, h.pos, h.count, dump)
            args == ReadArgs(h.flags, h.name, h.descriptor, r.attributes)
        IN  IF r.err # "none"
            THEN [err |-> r.err, method |-> NoMethod, args |-> NoArgs,
                  pos |-> r.pos, calls |-> h.calls \o r.calls,
                  trace |-> head \o r.trace]
            ELSE [err    |-> "none",
                  method |-> Method(args),
                  args   |-> args,
                  pos    |-> r.pos,
                  calls  |-> h.calls \o r.calls,
                  trace  |-> head \o r.trace]

\* ------------------------------------------------------------------ write
\* Mutant: the loop runs over the list from its end.
RECURSIVE WriteAttributesReversed(_, _, _)
WriteAttributesReversed(attributes, pool, out) ==
    IF attributes = <<>>
    THEN [err |-> "none", out |-> out]
    ELSE LET w == AttributeWrite(attributes[Len(attributes)], pool, out)
         IN  IF w.err # "none" THEN w
             ELSE WriteAttributesReversed(SubSeq(attributes, 1, Len(attributes) - 1),
                                          pool, w.out)

\* The loop of lines 205-206: each attribute's write, in list order; the
\* first failing call ends the loop.
RECURSIVE WriteAttributes(_, _, _)
WriteAttributes(attributes, pool, out) ==
    IF attributes = <<>>
    THEN [err |-> "none", out |-> out]
    ELSE LET w == AttributeWrite(Head(attributes), pool, out)
         IN  IF w.err # "none" THEN w
             ELSE WriteAttributes(Tail(attributes), pool, w.out)

\* Mutant: a lookup miss writes index 0 and goes on.
WriteIndexPlaceholder(pool, s, out) ==
    [err |-> "none",
     out |-> Append(out, IF PoolHas(pool, s) THEN PoolIndex(pool, s) ELSE 0)]

\* writer.write_u2(writer.constant_pool.index(s)) (lines 201, 202): the lookup
\* comes first, and a miss leaves the buffer as it is.
WriteIndex(pool, s, out) ==
    IF PoolHas(pool, s)
    THEN [err |-> "none", out |-> Append(out, PoolIndex(pool, s))]
    ELSE [err |-> "ContractViolation", out |-> out]

\* Method.write(writer) (lines 199-206): out is the writer's buffer.
write(m, pool, out) ==
    LET w1 == WriteIndex(pool, m.name, Append(out, access_flags(m)))
    IN  IF w1.err # "none" THEN w1
        ELSE LET w2 == WriteIndex(pool, m.descriptor, w1.out)
             IN  IF w2.err # "none" THEN w2
                 ELSE WriteAttributes(m.attributes, pool,
                                      Append(w2.out, attributes_count(m)))

\* ---------------------------------------------------------------- resolve
\* The loop of lines 212-213.
RECURSIVE ResolveAttributes(_, _)
ResolveAttributes(attributes, pool) ==
    IF attributes = <<>> THEN pool
    ELSE ResolveAttributes(Tail(attributes), AttributeResolve(Head(attributes), pool))

\* Mutant: name and descriptor are appended to the pool, not interned.
resolve_appending(m, pool) ==
    ResolveAttributes(m.attributes, Append(Append(pool, m.name), m.descriptor))

\* Method.resolve(constant_pool) (lines 208-213): the pool afterwards.
resolve(m, pool) ==
    ResolveAttributes(m.attributes, PoolAdd(PoolAdd(pool, m.name), m.descriptor))

\* ------------------------------------------------------------------ state
VARIABLES
    constant_pool,  \* the pool shared by reader, writer and resolve
    method,         \* the record under construction / in use, or NoMethod
    args,           \* the keyword arguments of the constructor call that built it
    origin,         \* "none", "ctor", "read", or "mutated" once its list was changed
    input,          \* the reader's stream of the last read
    pos,            \* the reader's cursor after the last read
    calls,          \* reader.read_u2 / Attribute.read calls of the last read
    dump,           \* the dump argument of the last read
    trace,          \* what the last read printed
    out,            \* the writer's buffer after the last write
    wstart,         \* the length of the writer's buffer before the last write
    err,            \* how the last operation ended
    last,           \* the last operation
    prev,           \* the operation before it
    pool_before,    \* the pool when the last operation began
    resolved        \* the record's resolve has run since its list last changed

vars == <<constant_pool, method, args, origin, input, pos, calls, dump, trace,
          out, wstart, err, last, prev, pool_before, resolved>>

\* What every operation records about itself.
Done(op) ==
    /\ last' = op
    /\ prev' = last
    /\ pool_before' = constant_pool

\* ----------------------------------------------------------------- inputs
\* Pools the enclosing class file may hand over: empty, names only, other
\* entries before and between the names.
InitPools ==
    {<<>>, <<"run">>, <<"run", "Code">>, <<NonUtf8, "Code", "run">>}

\* access_flags words fed to read in the record's life cycle (every 16-bit
\* word is fed to it under SpecCodec).
FlagWords ==
    {0, ACC_PUBLIC, ACC_PRIVATE + ACC_PUBLIC, ACC_ABSTRACT + 512 + ACC_PROTECTED}

WordAt(i) ==
    IF i = 1 THEN FlagWords
    ELSE IF i = 4 THEN 0..MaxAttrs
    ELSE 0..MaxIndex

RECURSIVE StreamsOfLen(_)
StreamsOfLen(n) ==
    IF n = 0 THEN {<<>>}
    ELSE {Append(s, w) : s \in StreamsOfLen(n - 1), w \in WordAt(n)}

\* Streams of u2 words: whole records, truncated ones, records followed by
\* one more word, indices in and out of the pool.
Streams ==
    {s \in UNION {StreamsOfLen(n) : n \in 0..(4 + MaxAttrs)} :
        Len(s) > 4 => Len(s) <= 4 + s[4] + 1}

Dumps == {None} \cup 0..MaxDump

RECURSIVE AttributeLists(_)
AttributeLists(n) ==
    IF n = 0 THEN {<<>>}
    ELSE AttributeLists(n - 1)
         \cup {Append(l, [name |-> s]) : l \in AttributeLists(n - 1), s \in Strings}

\* Constructor calls of the record's life cycle.
CtorArgs ==
    {[name |-> n, descriptor |-> d, public |-> pu, private |-> pr,
      protected |-> po, abstract |-> ab, attributes |-> al,
      static |-> FALSE, final |-> FALSE, synchronized |-> FALSE,
      bridge |-> FALSE, varargs |-> FALSE, native |-> FALSE,
      strict |-> FALSE, synthetic |-> FALSE] :
        n \in Strings, d \in Strings, pu \in BOOLEAN, pr \in BOOLEAN,
        po \in BOOLEAN, ab \in BOOLEAN, al \in AttributeLists(MaxAttrs)}

\* Every combination of the twelve flag arguments.
AllFlagArgs ==
    {[name |-> "run", descriptor |-> "Code", attributes |-> <<>>,
      public |-> f[1], private |-> f[2], protected |-> f[3], static |-> f[4],
      final |-> f[5], synchronized |-> f[6], bridge |-> f[7], varargs |-> f[8],
      native |-> f[9], abstract |-> f[10], strict |-> f[11], synthetic |-> f[12]] :
        f \in [1..12 -> BOOLEAN]}

\* Other records of the class file, resolved against the same pool.
OtherRecords ==
    {Method([name |-> n, descriptor |-> d, public |-> TRUE, private |-> FALSE,
             protected |-> FALSE, abstract |-> FALSE, attributes |-> <<>>,
             static |-> FALSE, final |-> FALSE, synchronized |-> FALSE,
             bridge |-> FALSE, varargs |-> FALSE, native |-> FALSE,
             strict |-> FALSE, synthetic |-> FALSE]) :
        n \in Strings, d \in Strings}

\* Writer buffers a write starts from: empty, or holding earlier output.
Writers == {<<>>, <<51966>>}

\* ---------------------------------------------------------------- actions
Init ==
    /\ constant_pool \in InitPools
    /\ method = NoMethod
    /\ args = NoArgs
    /\ origin = "none"
    /\ input = <<>>
    /\ pos = 0
    /\ calls = <<>>
    /\ dump = None
    /\ trace = <<>>
    /\ out = <<>>
    /\ wstart = 0
    /\ err = "none"
    /\ last = "init"
    /\ prev = "init"
    /\ pool_before = constant_pool
    /\ resolved = FALSE

\* Method(name, descriptor, ...): a producer builds the record directly.
Construct(a) ==
    /\ last = "init"
    /\ method' = Method(a)
    /\ args' = a
    /\ origin' = "ctor"
    /\ err' = "none"
    /\ Done("construct")
    /\ UNCHANGED <<constant_pool, input, pos, calls, dump, trace, out, wstart, resolved>>

\* Method.read(reader, dump) on a reader over stream b.
Read(b, d) ==
    /\ last = "init"
    /\ \E r \in {read(b, constant_pool, d)} :
           /\ method' = r.method
           /\ args' = r.args
           /\ origin' = IF r.err = "none" THEN "read" ELSE "none"
           /\ pos' = r.pos
           /\ calls' = r.calls
           /\ trace' = r.trace
           /\ err' = r.err
    /\ input' = b
    /\ dump' = d
    /\ Done("read")
    /\ UNCHANGED <<constant_pool, out, wstart, resolved>>

\* method.resolve(constant_pool).
Resolve ==
    /\ method # NoMethod
    /\ constant_pool' = resolve(method, constant_pool)
    /\ resolved' = TRUE
    /\ err' = "none"
    /\ Done("resolve")
    /\ UNCHANGED <<method, args, origin, input, pos, calls, dump, trace, out, wstart>>

\* other.resolve(constant_pool), by another record of the class file.
ResolveOther(o) ==
    /\ method # NoMethod
    /\ constant_pool' = resolve(o, constant_pool)
    /\ err' = "none"
    /\ Done("resolve_other")
    /\ UNCHANGED <<method, args, origin, input, pos, calls, dump, trace, out, wstart,
                   resolved>>

\* method.write(writer) on a writer whose buffer holds w.
Write(w) ==
    /\ method # NoMethod
    /\ \E r \in {write(method, constant_pool, w)} :
           /\ out' = r.out
           /\ err' = r.err
    /\ wstart' = Len(w)
    /\ Done("write")
    /\ UNCHANGED <<constant_pool, method, args, origin, input, pos, calls, dump, trace,
                   resolved>>

\* method.attributes.append(Attribute(s)): explicit mutation of the list (at
\* most one per record here).
AppendAttribute(s) ==
    /\ method # NoMethod
    /\ origin # "mutated"
    /\ Len(method.attributes) < MaxAttrs
    /\ method' = [method EXCEPT !.attributes = Append(@, [name |-> s])]
    /\ origin' = "mutated"
    /\ resolved' = FALSE
    /\ err' = "none"
    /\ Done("mutate")
    /\ UNCHANGED <<constant_pool, args, input, pos, calls, dump, trace, out, wstart>>

\* method.attributes.pop(): explicit mutation of the list.
PopAttribute ==
    /\ method # NoMethod
    /\ origin # "mutated"
    /\ method.attributes # <<>>
    /\ method' = [method EXCEPT !.attributes = SubSeq(@, 1, Len(@) - 1)]
    /\ origin' = "mutated"
    /\ resolved' = FALSE
    /\ err' = "none"
    /\ Done("mutate")
    /\ UNCHANGED <<constant_pool, args, input, pos, calls, dump, trace, out, wstart>>

ConstructRecord == last = "init" /\ \E a \in CtorArgs : Construct(a)
ReadRecord      == last = "init" /\ \E b \in Streams, d \in Dumps : Read(b, d)
ResolveAnother  == \E o \in OtherRecords : ResolveOther(o)
WriteRecord     == \E w \in Writers : Write(w)
MutateList      == (\E s \in Strings : AppendAttribute(s)) \/ PopAttribute

\* A producer's record: built directly, resolved (with the other records of
\* the class file) and written, in any order.
Next ==
    \/ ConstructRecord
    \/ Resolve
    \/ ResolveAnother
    \/ WriteRecord

Spec == Init /\ [][Next]_vars

\* A record decoded from a stream, with or without tracing, its list changed
\* or not, and written back against the reader's pool.
NextStream ==
    \/ ReadRecord
    \/ MutateList
    \/ WriteRecord

SpecStream == Init /\ [][NextStream]_vars

\* The flag codec alone: the constructor on every combination of the twelve
\* flag arguments, read on every 16-bit access_flags word.
InitCodec == Init /\ constant_pool = <<"run", "Code">>

ConstructAnyFlags == last = "init" /\ \E a \in AllFlagArgs : Construct(a)
ReadAnyFlags      == last = "init" /\ \E w \in U2 : Read(<<w, 1, 2, 0>>, None)

NextCodec == ConstructAnyFlags \/ ReadAnyFlags

SpecCodec == InitCodec /\ [][NextCodec]_vars

\* ----------------------------------------------------------------- claims
\* What the last write appended to the writer's buffer.
emitted == SubSeq(out, wstart + 1, Len(out))

\* The pool indices write emits for a list of attributes.
AttributeWords(attributes, pool) ==
    [i \in 1..Len(attributes) |-> PoolIndex(pool, attributes[i].name)]

\* The four bits of a 16-bit word that Table 4.5 does not assign.
OnlyAssignedBits(m) ==
    ~BitSet(m, 512) /\ ~BitSet(m, 8192) /\ ~BitSet(m, 16384) /\ ~BitSet(m, 32768)

AccessCount(m) ==
    (IF m.public THEN 1 ELSE 0) + (IF m.private THEN 1 ELSE 0)
    + (IF m.protected THEN 1 ELSE 0)

\* C1 (as stated): a record read from a stream and written back, unchanged,
\* against the same pool emits exactly the words read.
C1_RoundTrip ==
    (last = "write" /\ origin = "read") => emitted = SubSeq(input, 1, pos)

\* C2 (as stated): for a mask m of assigned bits only, the record read from
\* m encodes to m again.
C2_FlagSymmetry ==
    (last = "read" /\ err = "none" /\ OnlyAssignedBits(input[1]))
        => access_flags(method) = input[1]

\* C3: the constructed record has at most one of public, private, protected,
\* chosen by priority private > protected > public: private given makes it
\* private only, protected given without private makes it protected only, and
\* neither given leaves it neither private nor protected.
C3_MutualExclusion ==
    method # NoMethod =>
        /\ AccessCount(method) <= 1
        /\ args.private => (method.private /\ ~method.protected /\ ~method.public)
        /\ (~args.private /\ args.protected)
               => (method.protected /\ ~method.private /\ ~method.public)
        /\ (~args.private /\ ~args.protected)
               => (~method.private /\ ~method.protected)

\* C3's case: private, protected and public all given; private alone is kept.
C3_Witness ==
    /\ last = "construct"
    /\ args.private /\ args.protected /\ args.public
    /\ method.private /\ ~method.protected /\ ~method.public

\* C4 (as stated): constructed with abstract and no other flag, the record
\* encodes to 0x0400.
C4_AbstractOnly ==
    (/\ last = "construct"
     /\ args.abstract
     /\ \A i \in 1..12 : FlagNames[i] # "abstract" => ~args[FlagNames[i]])
        => access_flags(method) = ACC_ABSTRACT

\* C5 (as stated): write emits the list's length as the attribute count and
\* then every attribute in list order; whatever count was emitted is followed
\* by that many attributes.
C5_CountAlwaysMatches ==
    (last = "write" /\ Len(emitted) >= 4) =>
        /\ emitted[4] = Len(method.attributes)
        /\ Len(emitted) = 4 + emitted[4]
        /\ SubSeq(emitted, 5, Len(emitted))
               = AttributeWords(method.attributes, constant_pool)

\* C5 (amended): read collects the attributes in stream order; a write that
\* completes has emitted the list's length and then every attribute in list
\* order; a write that an attribute's lookup miss cuts short has emitted the
\* list's length and then only the attributes before the failing one.
C5_AttributeSequence ==
    /\ origin = "read" =>
           /\ Len(method.attributes) = input[4]
           /\ \A i \in 1..Len(method.attributes) :
                  method.attributes[i].name = constant_pool[input[4 + i]]
    /\ (last = "write" /\ Len(emitted) >= 4) =>
           LET n == Len(method.attributes)
               k == Len(emitted) - 4
           IN  /\ emitted[4] = n
               /\ k <= n
               /\ \A i \in 1..k :
                      emitted[4 + i] = PoolIndex(constant_pool, method.attributes[i].name)
               /\ err = "none" <=> k = n
               /\ k < n => ~PoolHas(constant_pool, method.attributes[k + 1].name)
    /\ (last = "write" /\ err = "none") => Len(emitted) >= 4

\* C5's case: two different attributes read from a stream and written back.
C5_Witness ==
    /\ last = "write" /\ err = "none" /\ origin = "read"
    /\ Len(method.attributes) = 2
    /\ method.attributes[1] # method.attributes[2]
    /\ Len(emitted) = 6

\* C6: a name index outside the pool makes read fail having consumed the
\* flag word and the name index only; no record, no further read, pool as it was.
C6_BadNameIndex ==
    (last = "read" /\ Len(input) >= 2 /\ input[2] \notin 1..Len(pool_before)) =>
        /\ err = "InvalidReference"
        /\ method = NoMethod
        /\ pos = 2
        /\ calls = <<"read_u2", "read_u2">>
        /\ constant_pool = pool_before

\* C6's case: the stream goes on after the bad name index.
C6_Witness ==
    /\ last = "read" /\ Len(input) >= 5 /\ Len(constant_pool) >= 1
    /\ input[2] \notin 1..Len(constant_pool)
    /\ err = "InvalidReference" /\ pos = 2

\* C7: a second resolve of the same record leaves the pool as the first left
\* it, name and descriptor at the indices they had, each interned once.
C7_ResolveTwice ==
    (last = "resolve" /\ prev = "resolve") =>
        /\ constant_pool = pool_before
        /\ PoolIndex(constant_pool, method.name) = PoolIndex(pool_before, method.name)
        /\ PoolIndex(constant_pool, method.descriptor)
               = PoolIndex(pool_before, method.descriptor)
        /\ Cardinality({i \in 1..Len(constant_pool) :
                            constant_pool[i] \in {method.name, method.descriptor}})
               = Cardinality({method.name, method.descriptor})

\* C7's case: resolve ran twice in a row on a record with two strings and an
\* attribute.
C7_Witness ==
    /\ last = "resolve" /\ prev = "resolve"
    /\ method.name # method.descriptor
    /\ method.attributes # <<>>
    /\ constant_pool = pool_before

\* C8: write gets past its two lookups exactly when name and descriptor are
\* in the pool, as they are once resolve has run, whatever other records
\* resolve later; on a miss it fails having written nothing in the place of
\* the missing index or after it.
C8_ResolveBeforeWrite ==
    LET hasName == PoolHas(constant_pool, method.name)
        hasDesc == PoolHas(constant_pool, method.descriptor)
    IN  /\ (method # NoMethod /\ resolved) => (hasName /\ hasDesc)
        /\ last = "write" =>
               /\ (hasName /\ hasDesc) <=> Len(emitted) >= 3
               /\ ~hasName =>
                      /\ err = "ContractViolation"
                      /\ emitted = <<access_flags(method)>>
               /\ (hasName /\ ~hasDesc) =>
                      /\ err = "ContractViolation"
                      /\ emitted = <<access_flags(method),
                                     PoolIndex(constant_pool, method.name)>>
               /\ (hasName /\ hasDesc) =>
                      /\ emitted[2] = PoolIndex(constant_pool, method.name)
                      /\ emitted[3] = PoolIndex(constant_pool, method.descriptor)

\* C8's case: a write of an unresolved record whose name is in the pool and
\* whose descriptor is not.
C8_Witness ==
    /\ last = "write" /\ ~resolved
    /\ PoolHas(constant_pool, method.name)
    /\ ~PoolHas(constant_pool, method.descriptor)
    /\ err = "ContractViolation" /\ Len(emitted) = 2

\* C9: a read with any dump ends as the read without tracing does: same
\* outcome, same record, same calls, same cursor.
C9_TracingObserver ==
    last = "read" =>
        LET u == read(input, pool_before, None)
        IN  /\ err = u.err
            /\ method = u.method
            /\ calls = u.calls
            /\ pos = u.pos
            /\ constant_pool = pool_before

\* C9's case: a traced read that printed and collected attributes.
C9_Witness ==
    /\ last = "read" /\ Truthy(dump) /\ err = "none"
    /\ method.attributes # <<>>
    /\ Len(trace) > 3

\* C10: the constructor does not look at its public argument: the record has
\* exactly one of public, private, protected, public exactly when neither
\* private nor protected is given, and its access_flags has exactly one of the
\* three low bits.
C10_ExactlyOneAccess ==
    method # NoMethod =>
        /\ AccessCount(method) = 1
        /\ method.public <=> (~args.private /\ ~args.protected)
        /\ method = Method([args EXCEPT !.public = ~args.public])
        /\ access_flags(method) % 8 \in {ACC_PUBLIC, ACC_PRIVATE, ACC_PROTECTED}

\* C10's case: public, private and protected all given false; the record is
\* public.
C10_Witness ==
    /\ last = "construct"
    /\ ~args.public /\ ~args.private /\ ~args.protected
    /\ method.public
    /\ access_flags(method) % 8 = ACC_PUBLIC

====
